---- MODULE Spec2Model ----
(***************************************************************************)
(* A model of src/app.js, the mini DartPad playground: the virtual file    *)
(* store {files, active} mirrored to localStorage, the file list with its  *)
(* click / long-press / context-menu handlers, the editor bridge, the      *)
(* backend client (postJSON over the BACKENDS list), the sandboxed runner  *)
(* with its console bridge, and import / export / reset.                   *)
(*                                                                         *)
(* JavaScript runs every handler to completion, so one handler is one      *)
(* action.  What is asynchronous in the code is a separate action here:    *)
(* a setTimeout callback, a FileReader onload, the settling of a fetch.    *)
(*                                                                         *)
(* Texts are TLA+ strings.  The user-visible messages of the source are    *)
(* Japanese; the module's strings are ASCII, so each message is written    *)
(* as an English gloss (the source line is given in MODEL_MAP.json).       *)
(***************************************************************************)
EXTENDS Integers, Sequences, FiniteSets, TLC

VARIABLES
    files,        \* state.files: the ordered mapping name -> text, as <<[name, text], ...>>
    active,       \* state.active
    storage,      \* the record under LS_KEY in localStorage (a document)
    editor,       \* UI.editor.value
    lineNums,     \* UI.lineNums.textContent, as N for the text "1\n2\n...\nN"
    title,        \* UI.filenameTitle.textContent
    rendered,     \* the names of the buttons now in UI.fileList, in order
    pressTimers,  \* the pending long-press timeouts, oldest first
    lnTimer,      \* whether the debounced refreshLineNumbers timeout is pending
    dialog,       \* the last blocking dialog shown (prompt / confirm / alert)
    status,       \* UI.status: its text and its dataset.kind
    statusTimer,  \* whether the timeout that clears the status is pending
    console,      \* the lines of UI.console
    atBottom,     \* whether UI.console is scrolled to its bottom
    preview,      \* the compiled script of the document UI.preview.src shows
    reading,      \* the FileReaders of importProject that have not fired onload
    calls,        \* the postJSON invocations in flight, with their callers' locals
    inbox,        \* the messages posted to the window and not yet dispatched
    download,     \* the document of the last export, and the project it was made from
    wired,        \* whether the page's script ran as far as its event wiring
    returned,     \* how the last postJSON invocation to end ended: its value or error
    writeFaults,  \* how many storage writes have thrown so far
    unsaved       \* whether the last storage write attempted threw

vars == <<files, active, storage, editor, lineNums, title, rendered, pressTimers,
          lnTimer, dialog, status, statusTimer, console, atBottom, preview,
          reading, calls, inbox, download, wired, returned, writeFaults, unsaved>>

----------------------------------------------------------------------------
(* Bounds of the model *)

MaxFaults == 1      \* storage writes that throw in one behaviour
MaxPending == 1     \* timeouts, FileReaders and postJSON invocations pending at once
MaxConsole == 2     \* console lines kept by the model
MaxInbox == 2       \* window messages in flight

----------------------------------------------------------------------------
(* Values *)

\* JavaScript's undefined, as the value of a property.  No text of the model
\* is this string.
Undefined == "<undefined>"

LS_KEY == "dartpad_mini_project_v1"

MainDart == "main.dart"

DotDart == ".dart"

DEFAULT_MAIN ==
    "// Welcome to mini DartPad (Dart only)\n// You can add more files with the + button (e.g., utils.dart)\n// Then import them in main.dart:\n//   import 'utils.dart';\n\nimport 'dart:html';\n\nvoid main() {\n  querySelector('#app')?.text = 'Hello from Dart!';\n  print('Hello, console!');\n}\n"

DEFAULT_FILES == << [name |-> MainDart, text |-> DEFAULT_MAIN] >>

\* What the user can type into a prompt: "" stands for an empty answer and for
\* Cancel (null), which the code treats alike (!name).
PromptInputs == {"", MainDart, "a.dart", "notes"}

\* The storage writes of one handler that succeed before one throws (the
\* quota is exceeded); no handler writes more than twice, so 2 is "all".
WriteBudgets == {0, 1, 2}

----------------------------------------------------------------------------
(* Strings *)

\* String.prototype.endsWith
EndsWith(s, suffix) ==
    /\ Len(s) >= Len(suffix)
    /\ SubSeq(s, Len(s) - Len(suffix) + 1, Len(s)) = suffix

CountNewlines(s) == Cardinality({i \in 1..Len(s) : SubSeq(s, i, i) = "\n"})

\* text.split('\n').length
SplitLength(s) == CountNewlines(s) + 1

\* `${v}`: a value in a template literal
ToStr(v) == IF v = Undefined THEN "undefined" ELSE v

\* JavaScript truthiness of a property value that is a string or undefined
Truthy(v) == v # Undefined /\ v # ""

----------------------------------------------------------------------------
(* The ordered mapping state.files *)

\* Object.keys(m)
Keys(m) == [i \in 1..Len(m) |-> m[i].name]

KeySet(m) == {m[i].name : i \in 1..Len(m)}

HasKey(m, k) == k \in KeySet(m)

\* m[k]
Get(m, k) ==
    IF HasKey(m, k) THEN (CHOOSE e \in {m[i] : i \in 1..Len(m)} : e.name = k).text
    ELSE Undefined

\* m[k] = v: an existing key keeps its place, a new key goes last
Put(m, k, v) ==
    IF HasKey(m, k)
    THEN [i \in 1..Len(m) |-> IF m[i].name = k THEN [name |-> k, text |-> v] ELSE m[i]]
    ELSE Append(m, [name |-> k, text |-> v])

\* delete m[k]
Delete(m, k) == SelectSeq(m, LAMBDA e : e.name # k)

----------------------------------------------------------------------------
(* Documents: JSON texts, by what JSON.parse makes of them *)

\* kind: "absent" (no text at all), "garbage" (JSON.parse throws), "null" (the
\* JSON text null), "object".  fkind, of an object: its files field is
\* "absent", a "string" or a "mapping"; active "" is an absent active field;
\* ts: whether the object carries a timestamp.
Doc(kind, fkind, fs, a, ts) ==
    [kind |-> kind, fkind |-> fkind, files |-> fs, active |-> a, ts |-> ts]

NoDoc == Doc("absent", "absent", <<>>, "", FALSE)

Garbage == Doc("garbage", "absent", <<>>, "", FALSE)

\* JSON.stringify of {files, active}: a property whose value is undefined is
\* left out
JSONStringify(fs, a) ==
    Doc("object", "mapping", SelectSeq(fs, LAMBDA e : e.text # Undefined), a, FALSE)

----------------------------------------------------------------------------
(* Messages (English glosses of the source's texts) *)

NewFilePrompt == "enter a new Dart file name (e.g. utils.dart)"
RenamePrompt == "new file name"
ExtMsg == "the extension must be .dart"
DupMsg == "a file of that name already exists"
LastFileMsg == "at least one file is needed"
DeleteConfirm == "delete this file?"
ResetConfirm == "reset everything? (cannot be undone)"

\* The message of the exception localStorage.setItem throws when the quota is
\* exceeded
QuotaExceeded == "QuotaExceededError"

ShowDialog(kind, msg, arg) == [kind |-> kind, msg |-> msg, arg |-> arg]

NoDialog == ShowDialog("none", "", "")

NoStatus == [text |-> "", kind |-> ""]

----------------------------------------------------------------------------
(* The machine: the variables as one record, which the handlers below      *)
(* transform.  budget is the number of storage writes that still succeed   *)
(* in the running handler; threw is the message of the exception that is   *)
(* propagating ("" when none is): every statement is skipped while one is. *)

Machine(b) ==
    [files |-> files, active |-> active, storage |-> storage, editor |-> editor,
     lineNums |-> lineNums, title |-> title, rendered |-> rendered,
     pressTimers |-> pressTimers, lnTimer |-> lnTimer, dialog |-> dialog,
     status |-> status, statusTimer |-> statusTimer, console |-> console,
     atBottom |-> atBottom, preview |-> preview,
     writeFaults |-> writeFaults, unsaved |-> unsaved,
     budget |-> b, threw |-> ""]

Commit(s) ==
    /\ files' = s.files
    /\ active' = s.active
    /\ storage' = s.storage
    /\ editor' = s.editor
    /\ lineNums' = s.lineNums
    /\ title' = s.title
    /\ rendered' = s.rendered
    /\ pressTimers' = s.pressTimers
    /\ lnTimer' = s.lnTimer
    /\ dialog' = s.dialog
    /\ status' = s.status
    /\ statusTimer' = s.statusTimer
    /\ console' = s.console
    /\ atBottom' = s.atBottom
    /\ preview' = s.preview
    /\ writeFaults' = s.writeFaults
    /\ unsaved' = s.unsaved

\* The environment's choice of b: a write may throw while the model's bound
\* on such faults allows one more
Allowed(b) == b \in WriteBudgets /\ (b < 2 => writeFaults < MaxFaults)

\* A statement: skipped while an exception propagates
Do(s, t) == IF s.threw # "" THEN s ELSE t

Throw(s, msg) == Do(s, [s EXCEPT !.threw = msg])

----------------------------------------------------------------------------
(* State & FS *)

persist(s) ==
    Do(s, IF s.budget = 0
          THEN Throw([s EXCEPT !.writeFaults = @ + 1, !.unsaved = TRUE], QuotaExceeded)
          ELSE [s EXCEPT !.storage = JSONStringify(s.files, s.active),
                         !.unsaved = FALSE,
                         !.budget = @ - 1])

\* ensureActiveExists, but the dangling pointer is left as it is
ensureActiveExists_skip(s) == s

ensureActiveExists(s) ==
    Do(s, IF ~Truthy(Get(s.files, s.active))
          THEN [s EXCEPT !.active = IF Len(s.files) > 0 THEN Keys(s.files)[1]
                                    ELSE MainDart]
          ELSE s)

----------------------------------------------------------------------------
(* UI rendering *)

\* The list is rebuilt: the old buttons leave the document with their
\* listeners, so no mouseup can clear a timeout one of them started.
renderFileList(s) ==
    Do(s, [s EXCEPT !.rendered = Keys(s.files),
                    !.pressTimers = [i \in 1..Len(@) |-> [@[i] EXCEPT !.live = FALSE]]])

refreshLineNumbers(s) == Do(s, [s EXCEPT !.lineNums = SplitLength(s.editor)])

setActive(s, name) ==
    Do(s, IF ~Truthy(Get(s.files, name)) THEN s
          ELSE persist(renderFileList(refreshLineNumbers(
                   [s EXCEPT !.active = name,
                             !.title = name,
                             !.editor = Get(s.files, name)]))))

setStatus(s, msg, isError) ==
    Do(s, [s EXCEPT !.status = [text |-> msg, kind |-> IF isError THEN "error" ELSE "ok"],
                    !.statusTimer = ~isError])

alert(s, msg) == Do(s, [s EXCEPT !.dialog = ShowDialog("alert", msg, "")])

----------------------------------------------------------------------------
(* File ops *)

\* name: what the user answers to the prompt
promptNewFile(s, name) ==
    LET p == [s EXCEPT !.dialog = ShowDialog("prompt", NewFilePrompt, "")] IN
    IF name = "" THEN p
    ELSE IF ~EndsWith(name, DotDart) THEN alert(p, ExtMsg)
    ELSE IF Truthy(Get(p.files, name)) THEN alert(p, DupMsg)
    ELSE renderFileList(setActive(persist(
             [p EXCEPT !.files = Put(@, name, "// " \o name \o "\n")]), name))

promptRename(s, oldName, name) ==
    LET p == [s EXCEPT !.dialog = ShowDialog("prompt", RenamePrompt, oldName)] IN
    IF name = "" \/ name = oldName THEN p
    ELSE IF ~EndsWith(name, DotDart) THEN alert(p, ExtMsg)
    ELSE IF Truthy(Get(p.files, name)) THEN alert(p, DupMsg)
    ELSE LET moved == [p EXCEPT
                 !.files = Delete(Put(@, name, Get(p.files, oldName)), oldName),
                 !.active = IF @ = oldName THEN name ELSE @]
             shown == renderFileList(persist(moved))
         IN  setActive(shown, shown.active)

\* promptDelete, but without the refusal for the last file
promptDelete_noRefusal(s, name, yes) ==
    LET c == [s EXCEPT !.dialog = ShowDialog("confirm", DeleteConfirm, name)] IN
    IF ~yes THEN c
    ELSE LET shown == renderFileList(persist(ensureActiveExists(
                 [c EXCEPT !.files = Delete(@, name)])))
         IN  setActive(shown, shown.active)

\* yes: what the user answers to the confirmation
promptDelete(s, name, yes) ==
    IF Len(s.files) = 1 THEN alert(s, LastFileMsg)
    ELSE LET c == [s EXCEPT !.dialog = ShowDialog("confirm", DeleteConfirm, name)] IN
         IF ~yes THEN c
         ELSE LET shown == renderFileList(persist(ensureActiveExists(
                      [c EXCEPT !.files = Delete(@, name)])))
              IN  setActive(shown, shown.active)

----------------------------------------------------------------------------
(* Editor bridge *)

\* editorInput, but the buffer is not written to storage
editorInput_noPersist(s) ==
    [s EXCEPT !.files = Put(@, s.active, s.editor), !.lnTimer = TRUE]

\* The input listener, the editor holding what the user left in it
editorInput(s) ==
    LET saved == persist([s EXCEPT !.files = Put(@, s.active, s.editor)]) IN
    Do(saved, [saved EXCEPT !.lnTimer = TRUE])

----------------------------------------------------------------------------
(* Console and status *)

appendConsole(s, level, text) ==
    Do(s, [s EXCEPT !.console = Append(@, "[" \o level \o "] " \o ToStr(text)),
                    !.atBottom = TRUE])

\* UI.console.textContent = ''
clearConsole(s) == Do(s, [s EXCEPT !.console = <<>>, !.atBottom = TRUE])

\* The message listener, but every message with data is taken for a console
\* message
onMessage_anyType(s, m) ==
    IF ~m.data THEN s
    ELSE appendConsole(s, IF m.level = "" THEN "log" ELSE m.level, m.text)

\* The message listener of the window.  A message is [data, type, level,
\* text]: data FALSE is a message without data; level "" is an absent level.
onMessage(s, m) ==
    IF ~m.data THEN s
    ELSE IF m.type = "console"
         THEN appendConsole(s, IF m.level = "" THEN "log" ELSE m.level, m.text)
         ELSE s

\* try { ... } catch (e) { handler }: s is the machine the try block left
Caught(s) == [s EXCEPT !.threw = ""]

----------------------------------------------------------------------------
(* Import / export / reset *)

\* JSON.stringify({files, active, ts: Date.now()}, null, 2)
exportProject(fs, a) == [JSONStringify(fs, a) EXCEPT !.ts = TRUE]

SyntaxErrorMsg == "Unexpected token in JSON"
NullFilesMsg == "Cannot read properties of null (reading 'files')"
BadFormatMsg == "invalid format"

\* The try block of reader.onload, doc the text read
importApply(s, doc) ==
    IF doc.kind = "garbage" THEN Throw(s, SyntaxErrorMsg)
    ELSE IF doc.kind = "null" THEN Throw(s, NullFilesMsg)
    ELSE IF doc.fkind # "mapping" THEN Throw(s, BadFormatMsg)
    ELSE LET shown == renderFileList(persist(
                 [s EXCEPT !.files = doc.files,
                           !.active = IF doc.active = "" THEN MainDart ELSE doc.active]))
         IN  setStatus(setActive(shown, shown.active), "import done", FALSE)

\* reader.onload
importOnload(s, doc) ==
    LET t == importApply(s, doc) IN
    IF t.threw = "" THEN t
    ELSE setStatus(Caught(t), "import failed: " \o t.threw, TRUE)

\* yes: what the user answers to the confirmation
hardReset(s, yes) ==
    LET c == [s EXCEPT !.dialog = ShowDialog("confirm", ResetConfirm, "")] IN
    IF ~yes THEN c
    ELSE LET shown == renderFileList(persist(
                 [c EXCEPT !.files = DEFAULT_FILES, !.active = MainDart]))
         IN  setStatus(setActive(shown, MainDart), "reset done", FALSE)

----------------------------------------------------------------------------
(* Backend helpers *)

BACKENDS ==
    << "https://v1.api.dartpad.dev/api/dartservices/v2",
       "https://dart-services.appspot.com/api/dartservices/v2" >>

\* A response body, as the fields the callers probe ("" and <<>>: absent)
Response(newString, newStringFormatted, source, result, compiledJS, js, issues) ==
    [newString |-> newString, newStringFormatted |-> newStringFormatted,
     source |-> source, result |-> result, compiledJS |-> compiledJS,
     compiledJavascript |-> "", js |-> js, issues |-> issues]

EmptyResponse == Response("", "", "", "", "", "", <<>>)

\* How the request to one candidate settles: fetch rejects ("neterr"), the
\* status is not ok ("http"), res.json() rejects ("badjson"), or a body
\* arrives ("ok")
Failed(t, msg) == [t |-> t, msg |-> msg, json |-> EmptyResponse]

Ok(json) == [t |-> "ok", msg |-> "", json |-> json]

NetErr == Failed("neterr", "Failed to fetch")
HttpErr == Failed("http", "500 Internal Server Error")
BadBody == Failed("badjson", "Unexpected token < in JSON")

\* postJSON, but a failed candidate ends the invocation with its error
postJSONSettle_noFallback(c, o) ==
    LET seen == [c EXCEPT !.outcomes = Append(@, o)] IN
    IF o.t = "ok"
    THEN [kind |-> "value", json |-> o.json, err |-> "", call |-> seen]
    ELSE [kind |-> "error", json |-> EmptyResponse, err |-> o.msg,
          call |-> [seen EXCEPT !.lastErr = o.msg]]

\* a || b
OrElse(a, b) == IF Truthy(a) THEN a ELSE b

RequestURL(i, path) == BACKENDS[i] \o "/" \o path

\* postJSON, but the requests to the first two candidates leave together
postJSON_bothAtOnce(op, path, payload, source) ==
    [op |-> op, path |-> path, payload |-> payload, source |-> source,
     idx |-> 1, lastErr |-> "", sent |-> <<RequestURL(1, path), RequestURL(2, path)>>,
     outcomes |-> <<>>, before |-> <<>>, target |-> "", later |-> ""]

\* A postJSON invocation as it awaits its first fetch; op names the caller
\* and source is the caller's local of that name.  sent and outcomes record
\* the requests of this invocation and how they settled, before the requests
\* of the invocations the same caller made earlier, target the file that
\* was active when the caller started, and later the script that a
\* compileAndRun started after this caller has put in the preview since
\* ("": none has).
postJSON(op, path, payload, source) ==
    [op |-> op, path |-> path, payload |-> payload, source |-> source,
     idx |-> 1, lastErr |-> "", sent |-> <<RequestURL(1, path)>>,
     outcomes |-> <<>>, before |-> <<>>, target |-> "", later |-> ""]

\* The awaited request of invocation c settles as o: the invocation returns
\* ("value"), throws ("error") or awaits the fetch to the next candidate
\* ("next")
postJSONSettle(c, o) ==
    LET seen == [c EXCEPT !.outcomes = Append(@, o)] IN
    IF o.t = "ok"
    THEN [kind |-> "value", json |-> o.json, err |-> "", call |-> seen]
    ELSE LET failed == [seen EXCEPT !.lastErr = o.msg] IN
         IF c.idx < Len(BACKENDS)
         THEN [kind |-> "next", json |-> EmptyResponse, err |-> "",
               call |-> [failed EXCEPT !.idx = @ + 1,
                                       !.sent = Append(@, RequestURL(c.idx + 1, c.path))]]
         ELSE [kind |-> "error", json |-> EmptyResponse, err |-> failed.lastErr,
               call |-> failed]

buildSourcePayload(fs, singleOnly) ==
    LET all == IF ~Truthy(Get(fs, MainDart)) THEN Put(fs, MainDart, DEFAULT_MAIN) ELSE fs IN
    [sources |-> IF singleOnly THEN <<>> ELSE all, source |-> Get(all, MainDart)]

----------------------------------------------------------------------------
(* Analyze / format / compile *)

\* One issue is [kind, line, message, sourceName] ("" : absent)
IssueLine(p, a) ==
    "[" \o OrElse(p.kind, "info") \o "] " \o OrElse(p.sourceName, a) \o ":"
        \o OrElse(p.line, "?") \o "\n  " \o p.message

NoIssuesMsg == "no problems found"

\* The panel's text is replaced by the joined lines: one text node
renderAnalysis(s, result) ==
    Do(s, [clearConsole(s) EXCEPT !.console =
               IF Len(result.issues) = 0 THEN <<NoIssuesMsg>>
               ELSE [i \in 1..Len(result.issues) |-> IssueLine(result.issues[i], s.active)]])

\* analyze, to its await
analyzeStart(s) == setStatus(s, "analyzing", FALSE)

\* analyze, from its await: r is what postJSON returned or threw
analyzeResume(s, r) ==
    IF r.kind = "value"
    THEN setStatus(renderAnalysis(s, r.json), "analysis done", FALSE)
    ELSE setStatus(s, "analysis failed: " \o r.err, TRUE)

formatStart(s) == setStatus(s, "formatting", FALSE)

\* formatCurrentFile, from its await
formatResume(s, source, r) ==
    IF r.kind = "value"
    THEN LET formatted == OrElse(r.json.newString, OrElse(r.json.newStringFormatted,
                              OrElse(r.json.source, source)))
             t == setStatus(persist(refreshLineNumbers(
                      [s EXCEPT !.files = Put(@, s.active, formatted),
                                !.editor = formatted])), "format done", FALSE)
         IN  IF t.threw = "" THEN t
             ELSE setStatus(Caught(t), "format failed: " \o t.threw, TRUE)
    ELSE setStatus(s, "format failed: " \o r.err, TRUE)

\* The document of the preview frame, as the compiled script it embeds
runInIframe(s, compiledJS) == Do(s, [s EXCEPT !.preview = compiledJS])

compileStart(s) == clearConsole(setStatus(s, "compiling", FALSE))

CompiledJS(json) ==
    OrElse(json.result, OrElse(json.compiledJS, OrElse(json.compiledJavascript, json.js)))

NoJSMsg == "Compiled JavaScript not found in response"

\* e.stack || String(e)
Stack(msg) == "Error: " \o msg

compileFailed(s, msg) ==
    appendConsole(setStatus(s, "compile failed: " \o msg, TRUE), "error", Stack(msg))

\* compileAndRun, from an await that is its last: r is what postJSON returned
\* or threw
compileResume(s, r) ==
    IF r.kind = "value"
    THEN IF Truthy(CompiledJS(r.json))
         THEN setStatus(runInIframe(setStatus(s, "running", FALSE), CompiledJS(r.json)),
                        "done", FALSE)
         ELSE compileFailed(s, NoJSMsg)
    ELSE compileFailed(s, r.err)

----------------------------------------------------------------------------
(* Page load *)

\* JSON.parse of the stored record, or null ("absent" here); only records
\* that persist wrote, no record and an unreadable record are modelled
loadState(raw) == IF raw.kind = "object" /\ raw.fkind = "mapping" THEN raw ELSE NoDoc

\* The page before its script runs, over what localStorage holds
FreshPage(raw, n, b) ==
    [files |-> <<>>, active |-> Undefined, storage |-> raw, editor |-> "",
     lineNums |-> 0, title |-> "", rendered |-> <<>>, pressTimers |-> <<>>,
     lnTimer |-> FALSE, dialog |-> NoDialog, status |-> NoStatus,
     statusTimer |-> FALSE, console |-> <<>>, atBottom |-> TRUE, preview |-> "",
     writeFaults |-> n, unsaved |-> FALSE,
     budget |-> b, threw |-> ""]

\* Lines 52-56: the state is loaded, or seeded and persisted
initState(s) ==
    LET loaded == loadState(s.storage) IN
    IF loaded.kind = "absent" \/ Len(loaded.files) = 0
    THEN persist([s EXCEPT !.files = DEFAULT_FILES, !.active = MainDart])
    ELSE [s EXCEPT !.files = loaded.files,
                   !.active = IF loaded.active = "" THEN Undefined ELSE loaded.active]

\* Lines 397-401: the initial render
initialRender(s) ==
    LET shown == renderFileList(s) IN
    setStatus(refreshLineNumbers(setActive(shown, shown.active)), "ready", FALSE)

NoDownload == [doc |-> NoDoc, files |-> <<>>, active |-> ""]

NoReturn == [kind |-> "none", path |-> "", json |-> EmptyResponse, err |-> "",
             sent |-> <<>>, outcomes |-> <<>>]

\* The state in which the whole script leaves a fresh page.  An exception of
\* lines 52-56 ends the script before the event wiring of lines 380-395; one
\* of the initial render ends it after.
LoadedPage(raw, b) ==
    LET s == initState(FreshPage(raw, 0, b))
        r == initialRender(s)
    IN  /\ files = r.files /\ active = r.active /\ storage = r.storage
        /\ editor = r.editor /\ lineNums = r.lineNums /\ title = r.title
        /\ rendered = r.rendered /\ pressTimers = r.pressTimers
        /\ lnTimer = r.lnTimer /\ dialog = r.dialog /\ status = r.status
        /\ statusTimer = r.statusTimer /\ console = r.console
        /\ atBottom = r.atBottom /\ preview = r.preview
        /\ writeFaults = r.writeFaults /\ unsaved = r.unsaved
        /\ wired = (s.threw = "")
        /\ reading = <<>>
        /\ calls = <<>>
        /\ inbox = <<>>
        /\ returned = NoReturn

\* The first visit: nothing is stored, or what is stored cannot be read
Init ==
    /\ \E raw \in {NoDoc, Garbage}, b \in WriteBudgets : LoadedPage(raw, b)
    /\ download = NoDownload

\* The user reloads the page: what is in flight is dropped with the old page
Reload(b) ==
    LET s == initState(FreshPage(storage, writeFaults, b)) IN
    /\ Allowed(b)
    /\ Commit(initialRender(s))
    /\ wired' = (s.threw = "")
    /\ reading' = <<>>
    /\ calls' = <<>>
    /\ inbox' = <<>>
    /\ returned' = NoReturn
    /\ UNCHANGED download

----------------------------------------------------------------------------
(* The event handlers and callbacks.  Each takes what the environment      *)
(* decides: the user's answers, and b, the storage writes that succeed.    *)

async == <<reading, calls, inbox, download, wired, returned>>

\* What is pending: the long-press timeouts, the FileReaders, the invocations
Pending == Len(pressTimers) + Len(reading) + Len(calls)

\* UI.addFileBtn click
AddFileClick(name, b) ==
    /\ wired
    /\ Allowed(b)
    /\ Commit(promptNewFile(Machine(b), name))
    /\ UNCHANGED async

\* click on the button of name
FileClick(name, b) ==
    /\ wired
    /\ Allowed(b)
    /\ Commit(setActive(Machine(b), name))
    /\ UNCHANGED async

\* mousedown on the button of name: its pressTimer variable now holds a new
\* timeout; one it held before can no longer be cleared.  A timeout is
\* [name, live, released]: live while the button that set it is in the
\* document and holds its handle, released once the press that set it has
\* ended with a mouseup or mouseleave on the entry of its name
FileMouseDown(name, cap) ==
    /\ wired
    /\ Pending < cap
    /\ Commit([Machine(0) EXCEPT !.pressTimers =
           Append([i \in 1..Len(pressTimers) |->
                       IF pressTimers[i].name = name
                       THEN [pressTimers[i] EXCEPT !.live = FALSE]
                       ELSE pressTimers[i]],
                  [name |-> name, live |-> TRUE, released |-> FALSE])])
    /\ UNCHANGED async

\* A timeout set by a press on the entry of name, the press having ended
Released(t, name) == IF t.name = name THEN [t EXCEPT !.released = TRUE] ELSE t

\* mouseup or mouseleave on the button of name: clearTimeout(pressTimer)
FileMouseUp(name) ==
    /\ wired
    /\ LET kept == SelectSeq(pressTimers, LAMBDA t : ~(t.name = name /\ t.live)) IN
       Commit([Machine(0) EXCEPT !.pressTimers =
                  [i \in 1..Len(kept) |-> Released(kept[i], name)]])
    /\ UNCHANGED async

\* The oldest long-press timeout expires (all have the same delay, so they
\* expire in the order they were set): promptRename of its name
PressTimerFire(name, b) ==
    /\ pressTimers # <<>>
    /\ Allowed(b)
    /\ Commit(promptRename([Machine(b) EXCEPT !.pressTimers = Tail(@)],
                           Head(pressTimers).name, name))
    /\ UNCHANGED async

\* contextmenu on the button of name
FileContextMenu(name, yes, b) ==
    /\ wired
    /\ Allowed(b)
    /\ Commit(promptDelete(Machine(b), name, yes))
    /\ UNCHANGED async

\* The user leaves text in the editor: the input event
EditorInput(text, b) ==
    /\ text # editor
    /\ Allowed(b)
    /\ Commit(IF wired THEN editorInput([Machine(b) EXCEPT !.editor = text])
              ELSE [Machine(b) EXCEPT !.editor = text])
    /\ UNCHANGED async

\* The debounce timeout expires
LnTimerFire ==
    /\ lnTimer
    /\ Commit(refreshLineNumbers([Machine(0) EXCEPT !.lnTimer = FALSE]))
    /\ UNCHANGED async

\* The timeout of setStatus expires
StatusTimerFire ==
    /\ statusTimer
    /\ Commit([Machine(0) EXCEPT !.status.text = "", !.statusTimer = FALSE])
    /\ UNCHANGED async

\* UI.resetBtn click
ResetClick(yes, b) ==
    /\ wired
    /\ Allowed(b)
    /\ Commit(hardReset(Machine(b), yes))
    /\ UNCHANGED async

\* UI.exportBtn click: the browser saves the document
ExportClick ==
    /\ wired
    /\ download' = [doc |-> exportProject(files, active),
                     files |-> files, active |-> active]
    /\ Commit(Machine(0))
    /\ UNCHANGED <<reading, calls, inbox, wired, returned>>

\* UI.importInput change: importProject starts a FileReader on the file
ImportChange(doc, cap) ==
    /\ wired
    /\ doc.kind # "absent"
    /\ Pending < cap
    /\ reading' = Append(reading, doc)
    /\ Commit(Machine(0))
    /\ UNCHANGED <<calls, inbox, download, wired, returned>>

Remove(q, i) == [j \in 1..(Len(q) - 1) |-> IF j < i THEN q[j] ELSE q[j + 1]]

\* reader.onload of the i-th pending FileReader
ReaderOnload(i, b) ==
    /\ i \in 1..Len(reading)
    /\ Allowed(b)
    /\ Commit(importOnload(Machine(b), reading[i]))
    /\ reading' = Remove(reading, i)
    /\ UNCHANGED <<calls, inbox, download, wired, returned>>

\* UI.analyzeBtn click
AnalyzeClick(cap) ==
    /\ wired
    /\ Pending < cap
    /\ Commit(analyzeStart(Machine(0)))
    /\ calls' = Append(calls, postJSON("analyze", "analyze",
                                       buildSourcePayload(files, FALSE), ""))
    /\ UNCHANGED <<reading, inbox, download, wired, returned>>

\* UI.formatBtn click
FormatClick(cap) ==
    /\ wired
    /\ Pending < cap
    /\ Commit(formatStart(Machine(0)))
    /\ calls' = Append(calls, [postJSON("format", "format",
                                        [sources |-> <<>>, source |-> editor], editor)
                                   EXCEPT !.target = active])
    /\ UNCHANGED <<reading, inbox, download, wired, returned>>

\* UI.runBtn click
RunClick(cap) ==
    /\ wired
    /\ Pending < cap
    /\ Commit(compileStart(Machine(0)))
    /\ calls' = Append(calls, postJSON("compile", "compile",
                                       buildSourcePayload(files, FALSE), ""))
    /\ UNCHANGED <<reading, inbox, download, wired, returned>>

\* The i-th invocation of q, a compileAndRun, has put js in the preview:
\* the compileAndRun invocations started before it, and still awaited, note
\* the script of the last started invocation that has put one there
Overtake(q, i, js) ==
    [j \in 1..Len(q) |->
        IF j < i /\ q[j].op \in {"compile", "compile2"}
        THEN [q[j] EXCEPT !.later = IF q[i].later # "" THEN q[i].later ELSE js]
        ELSE q[j]]

\* The request that the i-th invocation awaits settles as o, and the
\* invocation and its caller run on to their next await or to their end
FetchSettle(i, o, b) ==
    /\ i \in 1..Len(calls)
    /\ Allowed(b)
    /\ LET c == calls[i]
           r == postJSONSettle(c, o)
           ended == [kind |-> r.kind, path |-> c.path, json |-> r.json, err |-> r.err,
                     sent |-> r.call.sent, outcomes |-> r.call.outcomes]
       IN  IF r.kind = "next"
           THEN /\ calls' = [calls EXCEPT ![i] = r.call]
                /\ Commit(Machine(b))
                /\ UNCHANGED returned
           ELSE /\ returned' = ended
                /\ IF c.op = "compile" /\ r.kind = "value" /\ ~Truthy(CompiledJS(r.json))
                   THEN \* the first attempt returned no code: a second, {source} only
                        /\ calls' = [calls EXCEPT ![i] =
                               [postJSON("compile2", "compile",
                                         buildSourcePayload(files, TRUE), "")
                                    EXCEPT !.before = r.call.sent,
                                           !.later = c.later]]
                        /\ Commit(Machine(b))
                   ELSE /\ calls' = Remove(IF c.op \in {"compile", "compile2"} /\ r.kind = "value"
                                           THEN Overtake(calls, i, CompiledJS(r.json))
                                           ELSE calls, i)
                        /\ Commit(CASE c.op = "analyze" -> analyzeResume(Machine(b), r)
                                    [] c.op = "format" -> formatResume(Machine(b), c.source, r)
                                    [] OTHER -> compileResume(Machine(b), r))
    /\ UNCHANGED <<reading, inbox, download, wired>>

\* Some window (the preview frame, as a rule) posts m to the page
PostMessage(m) ==
    /\ Len(inbox) < MaxInbox
    /\ inbox' = Append(inbox, m)
    /\ Commit(Machine(0))
    /\ UNCHANGED <<reading, calls, download, wired, returned>>

\* The oldest posted message is dispatched to the message listener
WindowMessage ==
    /\ wired
    /\ inbox # <<>>
    /\ Len(console) < MaxConsole
    /\ Commit(onMessage(Machine(0), Head(inbox)))
    /\ inbox' = Tail(inbox)
    /\ UNCHANGED <<reading, calls, download, wired, returned>>

\* The user scrolls the console panel away from its bottom
ConsoleScroll ==
    /\ atBottom
    /\ console # <<>>
    /\ Commit([Machine(0) EXCEPT !.atBottom = FALSE])
    /\ UNCHANGED async

----------------------------------------------------------------------------
(* The file operations alone, from every valid project *)

FileNames == {MainDart, "a.dart"}

FileTexts == {DEFAULT_MAIN, "", "x\ny"}

Entry(n, t) == [name |-> n, text |-> t]

\* The projects of one or two files, active a key
ValidProjects ==
    {[files |-> <<Entry(n, t)>>, active |-> n] : n \in FileNames, t \in FileTexts}
    \cup
    {p \in {[files |-> <<Entry(n, t), Entry(m, u)>>, active |-> a] :
                n \in FileNames, m \in FileNames, t \in FileTexts,
                u \in FileTexts, a \in FileNames} :
        p.files[1].name # p.files[2].name}

\* The page as it loads over a stored valid project
InitFileOps ==
    /\ \E p \in ValidProjects : LoadedPage(JSONStringify(p.files, p.active), 2)
    /\ download = NoDownload

NextFileOps ==
    \/ \E name \in PromptInputs, b \in WriteBudgets : AddFileClick(name, b)
    \/ \E i \in 1..Len(rendered) : FileMouseDown(rendered[i], MaxPending)
    \/ \E i \in 1..Len(rendered) : FileMouseUp(rendered[i])
    \/ \E name \in PromptInputs, b \in WriteBudgets : PressTimerFire(name, b)
    \/ \E i \in 1..Len(rendered), yes \in BOOLEAN, b \in WriteBudgets :
           FileContextMenu(rendered[i], yes, b)

SpecFileOps == InitFileOps /\ [][NextFileOps]_vars

----------------------------------------------------------------------------
(* The project through every operation that touches it *)

\* The files the user can pick to import: one that is no JSON, one whose
\* files mapping is empty, one of a single file and no active field
ImportDocs ==
    { Garbage,
      Doc("object", "mapping", <<>>, "", FALSE),
      Doc("object", "mapping", <<Entry("a.dart", "x\ny")>>, "", FALSE) }

\* How a request of formatCurrentFile can settle
FormatOutcomes == {Ok(Response("x\ny", "", "", "", "", "", <<>>))}

\* What the user answers to a prompt
Answers == {"a.dart", "notes"}

\* What the user leaves in the editor
Typed == {"x\ny"}

Next ==
    \/ \E name \in Answers, b \in WriteBudgets : AddFileClick(name, b)
    \/ \E i \in 1..Len(rendered), b \in WriteBudgets : FileClick(rendered[i], b)
    \/ \E i \in 1..Len(rendered) : FileMouseDown(rendered[i], MaxPending)
    \/ \E i \in 1..Len(rendered) : FileMouseUp(rendered[i])
    \/ \E name \in Answers, b \in WriteBudgets : PressTimerFire(name, b)
    \/ \E i \in 1..Len(rendered), yes \in BOOLEAN, b \in WriteBudgets :
           FileContextMenu(rendered[i], yes, b)
    \/ \E text \in Typed, b \in WriteBudgets : EditorInput(text, b)
    \/ LnTimerFire
    \/ \E yes \in BOOLEAN, b \in WriteBudgets : ResetClick(yes, b)
    \/ \E doc \in ImportDocs : ImportChange(doc, MaxPending)
    \/ \E i \in 1..Len(reading), b \in WriteBudgets : ReaderOnload(i, b)
    \/ FormatClick(MaxPending)
    \/ \E i \in 1..Len(calls), o \in FormatOutcomes, b \in WriteBudgets :
           FetchSettle(i, o, b)
    \/ \E b \in WriteBudgets : Reload(b)

Spec == Init /\ [][Next]_vars

----------------------------------------------------------------------------
(* Export and import: the file operations that shape a project, and the    *)
(* export of the project and the import of what was exported, every        *)
(* storage write succeeding                                                *)

NextExchange ==
    \/ \E name \in {"a.dart"} : AddFileClick(name, 2)
    \/ \E i \in 1..Len(rendered) : FileMouseDown(rendered[i], MaxPending)
    \/ \E i \in 1..Len(rendered) : FileMouseUp(rendered[i])
    \/ \E name \in {"b.dart"} : PressTimerFire(name, 2)
    \/ \E i \in 1..Len(rendered), yes \in BOOLEAN : FileContextMenu(rendered[i], yes, 2)
    \/ ExportClick
    \/ ImportChange(download.doc, MaxPending)
    \/ \E i \in 1..Len(reading) : ReaderOnload(i, 2)

InitExchange == LoadedPage(NoDoc, 2) /\ download = NoDownload

SpecExchange == InitExchange /\ [][NextExchange]_vars

----------------------------------------------------------------------------
(* The backend: the three operations that call postJSON, and every way a   *)
(* request to a candidate can settle                                       *)

Outcomes ==
    { NetErr, HttpErr, BadBody,
      Ok(EmptyResponse),
      Ok(Response("x\ny", "", "", "", "", "", <<>>)),
      Ok(Response("", "", "", "main(){}", "", "", <<>>)) }

InitBackend == LoadedPage(NoDoc, 2) /\ download = NoDownload

NextBackend ==
    \/ AnalyzeClick(MaxPending)
    \/ FormatClick(MaxPending)
    \/ RunClick(MaxPending)
    \/ \E i \in 1..Len(calls), o \in Outcomes : FetchSettle(i, o, 2)

SpecBackend == InitBackend /\ [][NextBackend]_vars

----------------------------------------------------------------------------
(* The console: messages posted to the window while programs are compiled  *)
(* and run                                                                 *)

Message(data, type, level, text) ==
    [data |-> data, type |-> type, level |-> level, text |-> text]

Messages ==
    { Message(TRUE, "console", "error", "x"),
      Message(TRUE, "console", "", "y"),
      Message(TRUE, "resize", "error", "x"),
      Message(FALSE, "", "", "") }

RunOutcomes == {NetErr, Ok(Response("", "", "", "main(){}", "", "", <<>>))}

InitConsole == LoadedPage(NoDoc, 2) /\ download = NoDownload

NextConsole ==
    \/ \E m \in Messages : PostMessage(m)
    \/ WindowMessage
    \/ ConsoleScroll
    \/ RunClick(MaxPending)
    \/ \E i \in 1..Len(calls), o \in RunOutcomes : FetchSettle(i, o, 2)

SpecConsole == InitConsole /\ [][NextConsole]_vars

----------------------------------------------------------------------------
(* The local-runtime variant (lines 404-699).  Its state, file list, editor *)
(* and file operations are the code of the remote variant over again; its  *)
(* compileAndRun calls the compiler the page has loaded, if it has.        *)

NoMainMsg == "main.dart does not exist"
NoCompilerMsg == "dart_sdk_new.js is not loaded"
EmptyOutputMsg == "compile result is empty"

\* How the promise of dart.dart2js settles
Compiled(js) == [t |-> "ok", msg |-> "", js |-> js]

Rejected == [t |-> "rejected", msg |-> "Compilation failed", js |-> ""]

\* The catch block: the status, the line of appendConsole and one more line,
\* appended with no scroll (the panel, if it overflows, is left above it)
compileFailedLocal(s, msg) ==
    LET t == appendConsole(setStatus(s, "compile failed: " \o msg, TRUE), "error", Stack(msg))
    IN  [t EXCEPT !.console = Append(@, "[error] " \o msg), !.atBottom = FALSE]

\* compileAndRun, to its await or, when it throws before, to its end
compileStartLocal(s, hasCompiler) ==
    LET t == clearConsole(setStatus(s, "compiling", FALSE)) IN
    IF ~Truthy(Get(t.files, MainDart))
    THEN [m |-> compileFailedLocal(t, NoMainMsg), awaits |-> FALSE]
    ELSE IF ~hasCompiler
         THEN [m |-> compileFailedLocal(t, NoCompilerMsg), awaits |-> FALSE]
         ELSE [m |-> t, awaits |-> TRUE]

\* compileAndRun from its await, but empty output is run like any other
compileResumeLocal_runsEmpty(s, o) ==
    IF o.t # "ok" THEN compileFailedLocal(s, o.msg)
    ELSE setStatus(runInIframe(setStatus(s, "running", FALSE), o.js), "done", FALSE)

\* compileAndRun from its await: o is how the compiler's promise settled
compileResumeLocal(s, o) ==
    IF o.t # "ok" THEN compileFailedLocal(s, o.msg)
    ELSE IF ~Truthy(o.js) THEN compileFailedLocal(s, EmptyOutputMsg)
    ELSE setStatus(runInIframe(setStatus(s, "running", FALSE), o.js), "done", FALSE)

\* UI.runBtn click; hasCompiler: window.dart && dart.dart2js
RunClickLocal(hasCompiler, cap) ==
    /\ wired
    /\ Pending < cap
    /\ LET r == compileStartLocal(Machine(0), hasCompiler) IN
       /\ Commit(r.m)
       /\ calls' = IF r.awaits
                   THEN Append(calls, [op |-> "local", source |-> Get(files, MainDart)])
                   ELSE calls
    /\ UNCHANGED <<reading, inbox, download, wired, returned>>

\* The promise of the i-th pending dart.dart2js call settles as o
CompilerSettle(i, o) ==
    /\ i \in 1..Len(calls)
    /\ Commit(compileResumeLocal(Machine(0), o))
    /\ calls' = Remove(calls, i)
    /\ UNCHANGED <<reading, inbox, download, wired, returned>>

LocalOutcomes == {Compiled("main(){}"), Compiled("print(1)"), Compiled(""), Rejected}

LocalTexts == {"", "x\ny"}

\* The page over a project an earlier visit stored
InitLocal ==
    /\ \E p \in ValidProjects : LoadedPage(JSONStringify(p.files, p.active), 2)
    /\ download = NoDownload

NextLocal ==
    \/ \E hasCompiler \in BOOLEAN : RunClickLocal(hasCompiler, MaxPending)
    \/ \E i \in 1..Len(calls), o \in LocalOutcomes : CompilerSettle(i, o)
    \/ \E i \in 1..Len(rendered) : FileClick(rendered[i], 2)
    \/ \E text \in LocalTexts : EditorInput(text, 2)

SpecLocal == InitLocal /\ [][NextLocal]_vars

----------------------------------------------------------------------------
(* Deleting, selecting and editing, from every stored project of three     *)
(* files                                                                   *)

ThreeFileProjects ==
    {[files |-> <<Entry(MainDart, t), Entry("a.dart", u), Entry("b.dart", v)>>,
      active |-> a] :
        t \in LocalTexts, u \in LocalTexts, v \in LocalTexts,
        a \in {MainDart, "a.dart", "b.dart"}}

InitDelete ==
    /\ \E p \in ThreeFileProjects : LoadedPage(JSONStringify(p.files, p.active), 2)
    /\ download = NoDownload

NextDelete ==
    \/ \E i \in 1..Len(rendered), yes \in BOOLEAN, b \in WriteBudgets :
           FileContextMenu(rendered[i], yes, b)
    \/ \E i \in 1..Len(rendered), b \in WriteBudgets : FileClick(rendered[i], b)
    \/ \E text \in LocalTexts, b \in WriteBudgets : EditorInput(text, b)
    \/ LnTimerFire

SpecDelete == InitDelete /\ [][NextDelete]_vars

----------------------------------------------------------------------------
(* The editor and its gutter: keystrokes, file switches and formatting,    *)
(* with the timeouts the page has set expiring in the end                  *)

GutterTexts == {"", "x\ny", "x\ny\nz"}

GutterOutcomes == {NetErr, Ok(Response("x\ny\nz\n", "", "", "", "", "", <<>>))}

InitGutter ==
    /\ \E p \in ValidProjects : LoadedPage(JSONStringify(p.files, p.active), 2)
    /\ download = NoDownload

NextGutter ==
    \/ \E text \in GutterTexts, b \in WriteBudgets : EditorInput(text, b)
    \/ LnTimerFire
    \/ \E i \in 1..Len(rendered), b \in WriteBudgets : FileClick(rendered[i], b)
    \/ FormatClick(MaxPending)
    \/ \E i \in 1..Len(calls), o \in GutterOutcomes, b \in WriteBudgets :
           FetchSettle(i, o, b)

\* A timeout that is pending expires: the browser runs its callback
SpecGutter == InitGutter /\ [][NextGutter]_vars /\ WF_vars(LnTimerFire)

----------------------------------------------------------------------------
(* Claims about the file operations *)

\* C1: from any valid project, after any sequence of add, rename and delete
\* operations, whatever the user answers, state.active is a key of
\* state.files.
ActiveIsKey == HasKey(files, active)

\* The last dialog confirmed deleting the file the editor shows, that file is
\* gone, and active is one that remains.
ActiveIsKey_witness ==
    /\ dialog.kind = "confirm"
    /\ dialog.arg = title
    /\ ~HasKey(files, title)
    /\ HasKey(files, active)

DeleteStep ==
    \E i \in 1..Len(rendered), yes \in BOOLEAN, b \in WriteBudgets :
        FileContextMenu(rendered[i], yes, b)

\* C3: promptDelete on a project of exactly one file is refused: files, active
\* and the stored record are unchanged, whatever the name and the answer.
SoleFileDeleteRefused ==
    [][(Len(files) = 1 /\ DeleteStep) => UNCHANGED <<files, active, storage>>]_vars

\* The refusal was shown on a project of one file.
SoleFileDeleteRefused_witness ==
    /\ Len(files) = 1
    /\ dialog = ShowDialog("alert", LastFileMsg, "")

\* C4: promptRename changes neither files nor active when the new name is
\* already a key of files (whatever its text) or does not end in ".dart".
RenameRefusedNoMutation ==
    [][\A new \in PromptInputs, b \in WriteBudgets :
          (PressTimerFire(new, b) /\ (HasKey(files, new) \/ ~EndsWith(new, DotDart)))
              => UNCHANGED <<files, active>>]_vars

\* C5: promptNewFile changes neither files nor active when the name does not
\* end in ".dart" or is already a key of files (whatever its text).
AddRefusedNoMutation ==
    [][\A name \in PromptInputs, b \in WriteBudgets :
          (AddFileClick(name, b) /\ (HasKey(files, name) \/ ~EndsWith(name, DotDart)))
              => UNCHANGED <<files, active>>]_vars

----------------------------------------------------------------------------
(* Claims about the project as a whole *)

\* C2: in every reachable state, after any sequence of all operations,
\* state.files has at least one entry and state.active is a key of it.
NonEmptyAndActiveIsKey == Len(files) >= 1 /\ HasKey(files, active)

\* C6: importing the document that exportProject produced yields the files
\* mapping and the active pointer the project had when it was exported.
ExportImportRoundTrip ==
    [][\A i \in 1..Len(reading) :
          (ReaderOnload(i, 2) /\ reading[i] = download.doc)
              => (files' = download.files /\ active' = download.active)]_vars

\* C7: whenever importProject reports an import failure, files and active are
\* what they were before the import started.
ImportAllOrNothing ==
    [][\A i \in 1..Len(reading), b \in WriteBudgets :
          (ReaderOnload(i, b) /\ status'.kind = "error")
              => UNCHANGED <<files, active>>]_vars

\* C10, as claimed: whenever an event handler has finished, the stored
\* record is the serialization of the project in memory.
StorageMirrorsMemory == wired => storage = JSONStringify(files, active)

\* C10, amended: whenever an event handler has finished and the last storage
\* write attempted did not throw, the stored record is the serialization of
\* the project in memory.
StorageMirrorsMemoryUnlessWriteFailed ==
    ~unsaved => storage = JSONStringify(files, active)

\* A write threw once, and a later handler changed a.dart and wrote the
\* project out.
StorageMirrorsMemory_witness ==
    /\ writeFaults = 1
    /\ ~unsaved
    /\ Get(files, "a.dart") = "x\ny"
    /\ storage = JSONStringify(files, active)

----------------------------------------------------------------------------
(* Claims about the backend and the console *)

InOrder(sent, path) ==
    /\ Len(sent) <= Len(BACKENDS)
    /\ \A k \in 1..Len(sent) : sent[k] = BACKENDS[k] \o "/" \o path

TransportOrHttp == {"neterr", "http"}

\* C8, as claimed: candidates are contacted one at a time in the order of
\* BACKENDS; postJSON returns the response of the first candidate that
\* completes without transport or HTTP-status error and contacts no later
\* one; it throws only if every candidate failed in one of these two ways,
\* and then the error of the last candidate.
FallbackFirstWithoutTransportOrHttpError ==
    /\ \A i \in 1..Len(calls) :
          /\ InOrder(calls[i].sent, calls[i].path)
          /\ Len(calls[i].sent) = Len(calls[i].outcomes) + 1
          /\ \A k \in 1..Len(calls[i].outcomes) :
                calls[i].outcomes[k].t \in TransportOrHttp
    /\ returned.kind # "none" =>
          LET n == Len(returned.outcomes) IN
          /\ InOrder(returned.sent, returned.path)
          /\ Len(returned.sent) = n
          /\ \A k \in 1..(n - 1) : returned.outcomes[k].t \in TransportOrHttp
          /\ returned.kind = "value" =>
                /\ returned.outcomes[n].t \notin TransportOrHttp
                /\ returned.json = returned.outcomes[n].json
          /\ returned.kind = "error" =>
                /\ n = Len(BACKENDS)
                /\ returned.outcomes[n].t \in TransportOrHttp
                /\ returned.err = returned.outcomes[n].msg

\* C8, amended: candidates are contacted one at a time in the order of
\* BACKENDS; postJSON returns the decoded body of the first candidate whose
\* request completes without transport error, HTTP-status error or failure
\* to decode the body as JSON, and contacts no later one; it throws only if
\* every candidate failed in one of these three ways, and then the error of
\* the last candidate.
FallbackFirstDecodedResponse ==
    /\ \A i \in 1..Len(calls) :
          /\ InOrder(calls[i].sent, calls[i].path)
          /\ Len(calls[i].sent) = Len(calls[i].outcomes) + 1
          /\ \A k \in 1..Len(calls[i].outcomes) : calls[i].outcomes[k].t # "ok"
    /\ returned.kind # "none" =>
          LET n == Len(returned.outcomes) IN
          /\ InOrder(returned.sent, returned.path)
          /\ Len(returned.sent) = n
          /\ \A k \in 1..(n - 1) : returned.outcomes[k].t # "ok"
          /\ returned.kind = "value" =>
                /\ returned.outcomes[n].t = "ok"
                /\ returned.json = returned.outcomes[n].json
          /\ returned.kind = "error" =>
                /\ n = Len(BACKENDS)
                /\ returned.outcomes[n].t # "ok"
                /\ returned.err = returned.outcomes[n].msg

\* The first candidate answered with a body that is no JSON, and the
\* invocation returned the response of the second.
FallbackFirstDecodedResponse_witness ==
    /\ returned.kind = "value"
    /\ Len(returned.outcomes) = 2
    /\ returned.outcomes[1].t = "badjson"
    /\ returned.json = returned.outcomes[2].json

IsConsoleMessage(m) == m.data /\ m.type = "console"

\* C9: each message of type 'console' that the page receives appends exactly
\* one line '[level] text' at the end of the console panel, level defaulting
\* to 'log', in the order of arrival, and leaves the panel scrolled to its
\* bottom; a message of any other type appends nothing.
ConsoleForwarding ==
    [][WindowMessage =>
          LET m == Head(inbox) IN
          IF IsConsoleMessage(m)
          THEN /\ Len(console') = Len(console) + 1
               /\ SubSeq(console', 1, Len(console)) = console
               /\ console'[Len(console')] =
                     "[" \o (IF m.level = "" THEN "log" ELSE m.level) \o "] " \o m.text
               /\ atBottom'
          ELSE console' = console]_vars

\* The panel shows the lines of two console messages in the order they
\* arrived and is at its bottom, and a message of another type is waiting.
ConsoleForwarding_witness ==
    /\ console = <<"[error] x", "[log] y">>
    /\ atBottom
    /\ inbox # <<>> /\ ~IsConsoleMessage(Head(inbox))

----------------------------------------------------------------------------
(* Claims about the effects of single operations *)

\* C11: an addFile(name) whose name ends in '.dart' and is not a key adds
\* exactly the key name with the seed content "// <name>" (read with the line
\* feed that ends it in the code), leaves the content of every other file
\* unchanged and makes name the active file.
AddInsertsSeedAndActivates ==
    [][\A name \in PromptInputs, b \in WriteBudgets :
          (AddFileClick(name, b) /\ EndsWith(name, DotDart) /\ ~HasKey(files, name))
              => /\ KeySet(files') = KeySet(files) \cup {name}
                 /\ Get(files', name) = "// " \o name \o "\n"
                 /\ \A k \in KeySet(files) : Get(files', k) = Get(files, k)
                 /\ active' = name]_vars

----------------------------------------------------------------------------
(* Claims about presses and taps *)

RenameStep == \E name \in PromptInputs, b \in WriteBudgets : PressTimerFire(name, b)

SelectStep == \E i \in 1..Len(rendered), b \in WriteBudgets : FileClick(rendered[i], b)

\* C12: the rename prompt is never opened for a press that was released
\* (mouseup or mouseleave) before its 600 ms elapsed, whatever happened
\* between press and release, and a click never opens the delete
\* confirmation.
TapNeverRenamesNorDeletes ==
    [][/\ (RenameStep /\ Head(pressTimers).released) => dialog'.kind # "prompt"
       /\ SelectStep => dialog' = dialog]_vars

----------------------------------------------------------------------------
(* Claims about failing storage writes *)

\* What an operation leaves behind, the stored record aside
View(s) ==
    <<s.files, s.active, s.editor, s.lineNums, s.title, s.rendered, s.dialog,
      s.status, s.statusTimer, s.lnTimer>>

\* The step leaves behind what the handler run s would
After(s) ==
    <<files', active', editor', lineNums', title', rendered', dialog',
      status', statusTimer', lnTimer'>> = View(s)

\* C13: a failing storage write is not surfaced: add, rename, delete, select,
\* edit, import and reset complete all their steps (active switch, re-render,
\* status) as they do when every write succeeds.
PersistIsBestEffort ==
    [][\A b \in WriteBudgets :
          /\ \A name \in PromptInputs :
                AddFileClick(name, b) => After(promptNewFile(Machine(2), name))
          /\ \A name \in PromptInputs :
                PressTimerFire(name, b) =>
                    After(promptRename([Machine(2) EXCEPT !.pressTimers = Tail(@)],
                                       Head(pressTimers).name, name))
          /\ \A i \in 1..Len(rendered), yes \in BOOLEAN :
                FileContextMenu(rendered[i], yes, b) =>
                    After(promptDelete(Machine(2), rendered[i], yes))
          /\ \A i \in 1..Len(rendered) :
                FileClick(rendered[i], b) => After(setActive(Machine(2), rendered[i]))
          /\ \A text \in Typed :
                (wired /\ EditorInput(text, b)) =>
                    After(editorInput([Machine(2) EXCEPT !.editor = text]))
          /\ \A i \in 1..Len(reading) :
                ReaderOnload(i, b) => After(importOnload(Machine(2), reading[i]))
          /\ \A yes \in BOOLEAN :
                ResetClick(yes, b) => After(hardReset(Machine(2), yes))]_vars

----------------------------------------------------------------------------
(* Claims about the local-runtime variant *)

\* The handler ends in its catch block: the runner is not started, the
\* status is an error and the console ends with an error line
FailedFast ==
    /\ preview' = preview
    /\ status'.kind = "error"
    /\ Len(console') >= 1
    /\ SubSeq(console'[Len(console')], 1, 8) = "[error] "

\* C14: when the compiler entry point is absent, or it returns empty output,
\* compileAndRun of the local variant does not start the runner (the preview
\* is unchanged) and reports an error status and an error line in the
\* console; the runner is started only with non-empty compiled output.
LocalCompileFailsFast ==
    [][/\ \A hasCompiler \in BOOLEAN :
             RunClickLocal(hasCompiler, MaxPending) =>
                 /\ preview' = preview
                 /\ ~hasCompiler => FailedFast
       /\ \A i \in 1..Len(calls), o \in LocalOutcomes :
             CompilerSettle(i, o) =>
                 IF o.t = "ok" /\ o.js # ""
                 THEN preview' = o.js /\ status' = [text |-> "done", kind |-> "ok"]
                 ELSE FailedFast]_vars

\* A program is running in the preview, and a later run has failed for want
\* of output: the preview still shows the earlier program.
LocalCompileFailsFast_witness ==
    /\ preview = "main(){}"
    /\ status = [text |-> "compile failed: " \o EmptyOutputMsg, kind |-> "error"]
    /\ console = <<"[error] " \o Stack(EmptyOutputMsg), "[error] " \o EmptyOutputMsg>>

----------------------------------------------------------------------------
(* Claims about requests in flight *)

\* The requests one caller has sent so far, over all its postJSON invocations
Requests(c) == c.before \o c.sent

NoDuplicates(q) == \A j, k \in 1..Len(q) : q[j] = q[k] => j = k

\* Of the requests c has sent, those that have not settled
InFlight(c) == Len(c.sent) - Len(c.outcomes)

\* C15, as claimed: one invocation of analyze, format or compile sends at
\* most one request to each candidate, at most |BACKENDS| in all, and never
\* has two requests in flight at once.
AtMostOneRequestPerCandidate ==
    \A i \in 1..Len(calls) :
        /\ Len(Requests(calls[i])) <= Len(BACKENDS)
        /\ NoDuplicates(Requests(calls[i]))
        /\ InFlight(calls[i]) <= 1

\* C15, amended: one postJSON invocation sends at most one request to each
\* candidate, and never has two in flight; analyze and format invoke postJSON
\* once; compile invokes it a second time, with the {source} payload, when the
\* first response holds no compiled code, so that one compile sends at most
\* two requests to each candidate, 2 |BACKENDS| in all.
AtMostOneRequestPerCandidatePerAttempt ==
    \A i \in 1..Len(calls) :
        /\ Len(calls[i].sent) <= Len(BACKENDS)
        /\ NoDuplicates(calls[i].sent)
        /\ Len(calls[i].before) <= Len(BACKENDS)
        /\ NoDuplicates(calls[i].before)
        /\ calls[i].before # <<>> => calls[i].op = "compile2"
        /\ InFlight(calls[i]) <= 1

\* A compile whose first attempt went through both candidates and got a
\* response without code, and whose second attempt is at its second candidate.
AtMostOneRequestPerCandidatePerAttempt_witness ==
    \E i \in 1..Len(calls) :
        /\ calls[i].op = "compile2"
        /\ Len(calls[i].before) = Len(BACKENDS)
        /\ Len(calls[i].sent) = Len(BACKENDS)
        /\ InFlight(calls[i]) = 1

----------------------------------------------------------------------------
(* Claims about deleting and selecting *)

\* C16: a confirmed deleteFile(name) on a project of at least two files
\* removes exactly the key name and leaves the content of every other file
\* unchanged; active is unchanged if name was not the active file, whatever
\* the active file holds, and is one of the remaining keys if it was.
DeleteRemovesOneAndRepairsActive ==
    [][\A i \in 1..Len(rendered), b \in WriteBudgets :
          (Len(files) >= 2 /\ FileContextMenu(rendered[i], TRUE, b)) =>
              /\ KeySet(files') = KeySet(files) \ {rendered[i]}
              /\ \A k \in KeySet(files') : Get(files', k) = Get(files, k)
              /\ active # rendered[i] => active' = active
              /\ active = rendered[i] => active' \in KeySet(files')]_vars


\* C17: clicking the entry of a name that is a key of files, whatever its
\* content, makes it the active file, replaces the editor buffer with its
\* content and recomputes the gutter at once.  (A click that does nothing is
\* no step at all, so the claim is put to the handler in every state.)
ClickActivates ==
    \A i \in 1..Len(rendered), b \in WriteBudgets :
        HasKey(files, rendered[i]) =>
            LET clicked == setActive(Machine(b), rendered[i]) IN
            /\ clicked.active = rendered[i]
            /\ clicked.editor = Get(files, rendered[i])
            /\ clicked.lineNums = SplitLength(Get(files, rendered[i]))

----------------------------------------------------------------------------
(* Claims about the editor *)

\* The gutter does not show the numbers 1..N of the N lines in the buffer
GutterStale == lineNums # SplitLength(editor)

\* C18: a keystroke does not recompute the gutter synchronously, and leaves
\* exactly one recompute pending (the one it scheduled after cancelling the
\* one before); once input stops the gutter eventually shows the numbers
\* 1..N of the N lines of the buffer, also when a file switch or a format
\* completes while a recompute is pending.
GutterDebounced ==
    /\ [][\A text \in GutterTexts, b \in WriteBudgets :
             EditorInput(text, b) => (lineNums' = lineNums /\ lnTimer')]_vars
    /\ GutterStale ~> ~GutterStale


\* C19: when formatCurrentFile completes, the formatted text is stored in
\* the file that was active when format was requested, and the content of no
\* other file changes, whatever the user did while the request was in flight.
FormatTouchesRequestedFile ==
    [][\A i \in 1..Len(calls), o \in GutterOutcomes, b \in WriteBudgets :
          (FetchSettle(i, o, b) /\ calls[i].op = "format" /\ o.t = "ok") =>
              /\ Get(files', calls[i].target) = o.json.newString
              /\ KeySet(files') = KeySet(files)
              /\ \A k \in KeySet(files) \ {calls[i].target} :
                    Get(files', k) = Get(files, k)]_vars


\* C20: in every reachable state the editor input handler leaves the set of
\* file names and the active pointer unchanged and modifies at most
\* files[active]: a keystroke never creates a key.
KeystrokeKeepsNames ==
    [][\A text \in Typed, b \in WriteBudgets :
          EditorInput(text, b) =>
              /\ KeySet(files') = KeySet(files)
              /\ active' = active
              /\ \A k \in KeySet(files) \ {active} : Get(files', k) = Get(files, k)]_vars

----------------------------------------------------------------------------
(* Claims about rename and about overlapping runs *)

\* Every key of files maps to text
AllTextDefined == \A i \in 1..Len(files) : files[i].text # Undefined

\* C21: whenever promptRename(old) mutates the project, old is a key of
\* files; afterwards new holds the text old held, old is absent, the number
\* of files is unchanged and active is new iff it was old; and so every key
\* of files maps to defined text after any sequence of events, a long-press
\* timer expiring after its file was deleted or renamed included.
RenameMovesExistingFile ==
    /\ [][\A name \in PromptInputs \cup {"b.dart"}, b \in WriteBudgets :
             (PressTimerFire(name, b) /\ <<files, active>>' # <<files, active>>) =>
                 LET old == Head(pressTimers).name IN
                 /\ HasKey(files, old)
                 /\ HasKey(files', name) /\ Get(files', name) = Get(files, old)
                 /\ ~HasKey(files', old)
                 /\ Len(files') = Len(files)
                 /\ active' = (IF active = old THEN name ELSE active)]_vars
    /\ []AllTextDefined


----------------------------------------------------------------------------
(* Overlapping runs: the user edits main.dart and clicks Run while earlier *)
(* invocations of compileAndRun still await the backend, which compiles    *)
(* the source it is sent                                                   *)

\* The invocations of compileAndRun that may await the backend together
MaxRuns == 2

RunTexts == {"void main(){}", "void main(){print(1);}"}

\* The script the backend compiles source to
Dart2JS(source) == "/*js*/" \o source

\* How a request of invocation c to /compile can settle
CompileOutcomes(c) ==
    { NetErr, Ok(EmptyResponse),
      Ok(Response("", "", "", Dart2JS(c.payload.source), "", "", <<>>)) }

InitRuns == LoadedPage(NoDoc, 2) /\ download = NoDownload

NextRuns ==
    \/ \E text \in RunTexts : EditorInput(text, 2)
    \/ RunClick(MaxRuns)
    \/ \E i \in 1..Len(calls) : \E o \in CompileOutcomes(calls[i]) : FetchSettle(i, o, 2)

SpecRuns == InitRuns /\ [][NextRuns]_vars

\* C22: with overlapping Run actions the preview ends up showing the output
\* of the most recently requested run: when the last of the overlapping
\* invocations of compileAndRun completes, and an invocation requested
\* after it has already completed with a script, the preview holds that
\* script, whatever order the responses arrived in; and when the last to
\* complete is itself the most recently requested and returns a script, the
\* preview holds its script.
PreviewShowsLatestRun ==
    [][\A i \in 1..Len(calls) : \A o \in CompileOutcomes(calls[i]) :
          (FetchSettle(i, o, 2) /\ calls' = <<>>) =>
              /\ calls[i].later # "" => preview' = calls[i].later
              /\ (calls[i].later = "" /\ Truthy(CompiledJS(o.json))) =>
                     preview' = CompiledJS(o.json)]_vars

====
